---- MODULE Spec2Model ----
(***************************************************************************)
(* Matchmaking queue, match registry and connection lifecycle of the       *)
(* Enhanced Pong backend (backend/sockets/socketHandlers.js and            *)
(* backend/server.js).  Node runs every handler to completion, so an       *)
(* action is one handler, or the part of an async handler between two      *)
(* awaits.  Time is in milliseconds; timers fire when they are due.        *)
(***************************************************************************)
EXTENDS Integers, Sequences, FiniteSets, TLC

VARIABLES
    sockState,        \* socket id -> "unused" | "open" | "closing" | "closed"
    sockUser,         \* socket id -> socket.userId (NoUser when no token was verified)
    pendingJoin,      \* socket id -> matchmaking:join handlers awaiting database.get
    activeConnections,\* server.activeConnections: socket id -> {userId, currentMatch}
    queue,            \* matchmakingService.queue
    searchTimeouts,   \* matchmakingService.searchTimeouts: userId -> timer handle
    activeMatches,    \* server.activeMatches: match id -> match
    engineMatches,    \* gameEngine.matches: match id -> the engine's shallow copy
    countdowns,       \* pending 2 s countdown timers of handleMatchFound
    graceTimers,      \* pending 30 s reconnection timers
    uuids,            \* match ids handed out so far
    out,              \* messages emitted by the last step
    last,             \* the last step: the pair findMatch removed, an entry replaced
    readySent,        \* match id -> the participants (1, 2) that sent match:ready
    sinceClose        \* the first participant to drop: its socket, the time since

mmVars     == <<queue, searchTimeouts>>
sockVars   == <<sockState, sockUser, pendingJoin, activeConnections>>
matchVars  == <<activeMatches, engineMatches, countdowns, graceTimers, uuids>>
histVars   == <<out, last, readySent, sinceClose>>
vars       == <<sockVars, mmVars, matchVars, histVars>>

----------------------------------------------------------------------------
(* Bounds of the model *)

MaxSockets  == 2     \* connections opened in a run
MaxReopen   == 1     \* further connections opened in a run with reconnection
MaxOpen     == 2     \* connections open at a time
MaxRematch  == 1     \* matches registered in a run with reconnection
MaxMatches  == 2     \* matches registered in a run
MaxPending  == 1     \* matchmaking:join requests awaiting the database at a time
MaxExpand   == 3     \* 15 s intervals an entry is followed in the queue

Users   == {"u1", "u2"}
NoUser  == "undefined"
UserNo(u) == IF u = "u1" THEN 1 ELSE 2
Ratings == {800, 950, 951, 1200, 2900}
Sockets == 1 .. (MaxSockets + MaxReopen)

(* Constants of the program *)

baseRange         == 150
expansionRate     == 50
expansionInterval == 15000
ratingFloor       == 800
ratingCeiling     == 3000
countdownDelay    == 2000
graceDelay        == 30000

TimeStep == expansionInterval
MaxWait  == MaxExpand * expansionInterval

Max(a, b) == IF a >= b THEN a ELSE b
Min(a, b) == IF a <= b THEN a ELSE b
SetMin(S) == CHOOSE x \in S : \A y \in S : x <= y

\* uuidv4(): the n-th match id; never equal to a socket id
uuidv4(n) == MaxSockets + MaxReopen + n
MatchIds  == {uuidv4(n) : n \in 1 .. MaxMatches}

\* A JavaScript Map as a function: set and delete
MapSet(f, k, v) == [x \in DOMAIN f \cup {k} |-> IF x = k THEN v ELSE f[x]]
MapDel(f, k)    == [x \in DOMAIN f \ {k} |-> f[x]]
EmptyMap        == [x \in {} |-> 0]

----------------------------------------------------------------------------
(* MatchmakingService *)

\* Mutant: the initial band is 100 wide instead of 150
narrowRatingRange(rating, timeInQueue) ==
    LET expansions   == timeInQueue \div expansionInterval
        currentRange == 100 + expansions * expansionRate
    IN  [min |-> Max(ratingFloor, rating - currentRange),
         max |-> Min(ratingCeiling, rating + currentRange)]

\* Mutant: every expansion widens the band by 100 instead of 50
steepRatingRange(rating, timeInQueue) ==
    LET expansions   == timeInQueue \div expansionInterval
        currentRange == baseRange + expansions * 100
    IN  [min |-> Max(ratingFloor, rating - currentRange),
         max |-> Min(ratingCeiling, rating + currentRange)]

\* Mutant: the band is not held within the rating scale
unclampedRatingRange(rating, timeInQueue) ==
    LET expansions   == timeInQueue \div expansionInterval
        currentRange == baseRange + expansions * expansionRate
    IN  [min |-> rating - currentRange, max |-> rating + currentRange]

\* Mutant: the band never widens
fixedRatingRange(rating, timeInQueue) ==
    [min |-> Max(ratingFloor, rating - baseRange),
     max |-> Min(ratingCeiling, rating + baseRange)]

calculateRatingRange(rating, timeInQueue) ==
    LET expansions   == timeInQueue \div expansionInterval
        currentRange == baseRange + expansions * expansionRate
    IN  [min |-> Max(ratingFloor, rating - currentRange),
         max |-> Min(ratingCeiling, rating + currentRange)]

\* The service state threaded through its methods
Svc(q, t) == [queue |-> q, timeouts |-> t]

\* clearTimeout + delete when the map holds a handle for userId
removeFromQueue(svc, userId) ==
    Svc(SelectSeq(svc.queue, LAMBDA p : p.userId # userId),
        IF userId \in DOMAIN svc.timeouts THEN MapDel(svc.timeouts, userId)
                                          ELSE svc.timeouts)

\* setTimeout(expandSearch, 15000) stored under userId
setExpandingSearch(svc, userId) ==
    Svc(svc.queue,
        MapSet(svc.timeouts, userId, [live |-> TRUE, rem |-> expansionInterval]))

playerInRange(player, opponent) ==
    opponent.rating >= player.range.min /\ opponent.rating <= player.range.max

opponentInRange(player, opponent) ==
    player.rating >= opponent.range.min /\ player.rating <= opponent.range.max

compatible(player, opponent) ==
    playerInRange(player, opponent) \/ opponentInRange(player, opponent)

\* Mutant: the searching entry is skipped on enqueue only, not on a firing
findOpponentSelf(q, player) ==
    LET hits == {i \in 1 .. Len(q) :
                    /\ q[i].userId # player.userId \/ player.fires > 0
                    /\ compatible(player, q[i])}
    IN  IF hits = {} THEN 0 ELSE SetMin(hits)

\* Mutant: the last qualifying entry of the queue is picked
findOpponentLast(q, player) ==
    LET hits == {i \in 1 .. Len(q) :
                    /\ q[i].userId # player.userId
                    /\ compatible(player, q[i])}
    IN  IF hits = {} THEN 0 ELSE CHOOSE i \in hits : \A j \in hits : i >= j

\* Index in q of the opponent findMatch picks for player, 0 when there is none
findOpponent(q, player) ==
    LET hits == {i \in 1 .. Len(q) :
                    /\ q[i].userId # player.userId
                    /\ compatible(player, q[i])}
    IN  IF hits = {} THEN 0 ELSE SetMin(hits)

\* createMatch: the participants of the new match, player first
createMatch(player1, player2) ==
    <<[userId |-> player1.userId, socketId |-> player1.socketId,
       rating |-> player1.rating],
      [userId |-> player2.userId, socketId |-> player2.socketId,
       rating |-> player2.rating]>>

\* findMatch: the service afterwards and the match it returns (<<>> for null)
findMatch(svc, player) ==
    LET i == findOpponent(svc.queue, player)
    IN  IF i = 0
        THEN [svc |-> svc, match |-> <<>>]
        ELSE [svc   |-> removeFromQueue(removeFromQueue(svc, player.userId),
                                        svc.queue[i].userId),
              match |-> createMatch(player, svc.queue[i])]

queueEntry(player) ==
    [userId |-> player.userId, socketId |-> player.socketId,
     rating |-> player.rating, age |-> 0, fires |-> 0,
     range  |-> calculateRatingRange(player.rating, 0)]

\* Mutant: the entry the identity already has is not removed first
addToQueueKeep(svc, player) ==
    LET entry == queueEntry(player)
        s1    == Svc(Append(svc.queue, entry), svc.timeouts)
        s2    == setExpandingSearch(s1, player.userId)
    IN  findMatch(s2, entry)

addToQueue(svc, player) ==
    LET s1    == removeFromQueue(svc, player.userId)
        entry == queueEntry(player)
        s2    == Svc(Append(s1.queue, entry), s1.timeouts)
        s3    == setExpandingSearch(s2, player.userId)
    IN  findMatch(s3, entry)

----------------------------------------------------------------------------
(* Emitted messages *)

Emit(s, msg, arg)  == [to |-> s, msg |-> msg, arg |-> arg]
PlayerSockets(m)   == {m.players[i].socketId : i \in 1 .. 2}
\* io.to(room) reaches the sockets that joined the room and are still connected
Room(m)            == {s \in PlayerSockets(m) : sockState[s] = "open"}
EmitRoom(m, msg)   == {Emit(s, msg, 0) : s \in Room(m)}

\* What the last step did to the queue: the pair it matched (<<>> when none) and
\* whether an enqueue replaced an entry of the same identity
Event(match, replaced) ==
    [pair     |-> IF match = <<>> THEN <<>> ELSE <<match[1].userId, match[2].userId>>,
     replaced |-> replaced]
NoEvent == Event(<<>>, FALSE)

NoMatch == 0      \* currentMatch: null

----------------------------------------------------------------------------
(* server.js: connection *)

\* Identities are opaque: a new connection carries no identity, one seen before,
\* or the first one not seen yet
KnownUsers == {sockUser[s] : s \in Sockets} \ {NoUser}
NextUser   == LET fresh == Users \ KnownUsers
              IN  IF fresh = {} THEN {}
                  ELSE {CHOOSE u \in fresh : \A v \in fresh : UserNo(u) <= UserNo(v)}

\* io.on('connection'): the record is stored, setupSocketEvents copies socket.userId
Connect(u, limit) ==
    /\ u \in KnownUsers \cup NextUser \cup {NoUser}
    /\ Cardinality({s \in Sockets : sockState[s] # "unused"}) < limit
    /\ Cardinality({s \in Sockets : sockState[s] \in {"open", "closing"}}) < MaxOpen
    /\ \E s \in Sockets :
        /\ sockState[s] = "unused"
        /\ \A x \in Sockets : x < s => sockState[x] # "unused"
        /\ sockState' = [sockState EXCEPT ![s] = "open"]
        /\ sockUser' = [sockUser EXCEPT ![s] = u]
        /\ activeConnections' =
             MapSet(activeConnections, s, [userId |-> u, currentMatch |-> NoMatch])
    /\ out' = {}
    /\ last' = NoEvent
    /\ UNCHANGED <<pendingJoin, mmVars, matchVars, readySent, sinceClose>>

----------------------------------------------------------------------------
(* socketHandlers.js: matchmaking *)

\* Lengths are kept in tenths of a pixel, speeds in tenths of a pixel per frame
Scale == 10
Px(n) == n * Scale

\* The gameState createMatch gives a match (lines 138-145)
gameState ==
    [ball    |-> [x |-> Px(400), y |-> Px(300), vx |-> Px(5), vy |-> Px(3)],
     paddles |-> [left |-> Px(250), right |-> Px(250)],
     score   |-> <<0, 0>>]

\* GameEngine.createMatch: the engine's copy of a match with the given status;
\* startGameLoop sets its interval; lastTick counts frames since the creation
engineCreateMatch(status) ==
    [status |-> status, tickInterval |-> TRUE, winner |-> NoUser, lastTick |-> 0,
     ball |-> gameState.ball, paddles |-> gameState.paddles, score |-> gameState.score]

\* A player as the match keeps it; the rating is not read again after match:found
participant(p) == [userId |-> p.userId, socketId |-> p.socketId, ready |-> FALSE]

\* handleMatchFound: registers the match in both maps and starts the countdown.
\* The record that receives currentMatch is activeMatches.get(player.socketId)
\* (line 534); activeMatches holds matches under match ids, so no record of
\* activeConnections is changed.
handleMatchFound(match) ==
    LET id == uuidv4(Cardinality(uuids) + 1)
        am == MapSet(activeMatches, id,
                     [players |-> [i \in 1 .. 2 |-> participant(match[i])],
                      status  |-> "starting"])
    IN  /\ uuids' = uuids \cup {id}
        /\ activeMatches' = am
        /\ engineMatches' = MapSet(engineMatches, id, engineCreateMatch("starting"))
        /\ UNCHANGED activeConnections
        /\ countdowns' = MapSet(countdowns, id, countdownDelay)
        /\ readySent' = MapSet(readySent, id, {})
        /\ out' = {Emit(match[i].socketId, "match:found", match[3 - i].rating) :
                       i \in 1 .. 2}

RECURSIVE Sum(_, _)
Sum(f, S) == IF S = {} THEN 0
             ELSE LET x == CHOOSE y \in S : TRUE IN f[x] + Sum(f, S \ {x})
InFlight  == Sum(pendingJoin, Sockets)

\* socket.on('matchmaking:join') up to its await
JoinStart(s) ==
    /\ sockState[s] = "open"
    /\ InFlight < MaxPending
    /\ pendingJoin' = [pendingJoin EXCEPT ![s] = @ + 1]
    /\ out' = {}
    /\ last' = NoEvent
    /\ UNCHANGED <<sockState, sockUser, activeConnections, mmVars, matchVars,
                   readySent, sinceClose>>

\* database.get rejects: the catch block
JoinError(s) ==
    /\ pendingJoin[s] > 0
    /\ pendingJoin' = [pendingJoin EXCEPT ![s] = @ - 1]
    /\ out' = {Emit(s, "error:Failed to join matchmaking", 0)}
    /\ last' = NoEvent
    /\ UNCHANGED <<sockState, sockUser, activeConnections, mmVars, matchVars,
                   readySent, sinceClose>>

JoinNoUserQueued(s) ==
    /\ pendingJoin[s] > 0
    /\ sockUser[s] = NoUser
    /\ pendingJoin' = [pendingJoin EXCEPT ![s] = @ - 1]
    /\ queue' = Append(queue, queueEntry([userId |-> NoUser, socketId |-> s,
                                          rating |-> SetMin(Ratings)]))
    /\ out' = {Emit(s, "matchmaking:queued", Len(queue'))}
    /\ last' = NoEvent
    /\ UNCHANGED <<sockState, sockUser, activeConnections, searchTimeouts, matchVars,
                   readySent, sinceClose>>

\* database.get finds no row for socket.userId
JoinNoUser(s) ==
    /\ pendingJoin[s] > 0
    /\ sockUser[s] = NoUser
    /\ pendingJoin' = [pendingJoin EXCEPT ![s] = @ - 1]
    /\ out' = {Emit(s, "error:User not found", 0)}
    /\ last' = NoEvent
    /\ UNCHANGED <<sockState, sockUser, activeConnections, mmVars, matchVars,
                   readySent, sinceClose>>

\* database.get returns the user's row, with rating r
JoinFinish(s, r) ==
    /\ pendingJoin[s] > 0
    /\ sockUser[s] # NoUser
    /\ LET player == [userId |-> sockUser[s], socketId |-> s, rating |-> r]
           res    == addToQueue(Svc(queue, searchTimeouts), player)
           was    == \E i \in 1 .. Len(queue) : queue[i].userId = player.userId
       IN  /\ queue' = res.svc.queue
           /\ searchTimeouts' = res.svc.timeouts
           /\ IF res.match # <<>>
              THEN /\ Cardinality(uuids) < MaxMatches
                   /\ last' = Event(res.match, was)
                   /\ handleMatchFound(res.match)
                   /\ UNCHANGED graceTimers
              ELSE /\ last' = Event(<<>>, was)
                   /\ out' = {Emit(s, "matchmaking:queued", Len(res.svc.queue))}
                   /\ UNCHANGED <<activeConnections, matchVars, readySent>>
    /\ pendingJoin' = [pendingJoin EXCEPT ![s] = @ - 1]
    /\ UNCHANGED <<sockState, sockUser, sinceClose>>

\* socket.on('matchmaking:leave')
Leave(s) ==
    /\ sockState[s] = "open"
    /\ LET res == removeFromQueue(Svc(queue, searchTimeouts), sockUser[s])
       IN  /\ queue' = res.queue
           /\ searchTimeouts' = res.timeouts
    /\ out' = {Emit(s, "matchmaking:left", 0)}
    /\ last' = NoEvent
    /\ UNCHANGED <<sockVars, matchVars, readySent, sinceClose>>

\* The expandSearch callback of setExpandingSearch, for the timer stored under userId.
\* findMatch's result is not used (line 93) and the timer is always rescheduled.
expandSearch(userId) ==
    /\ userId \in DOMAIN searchTimeouts
    /\ searchTimeouts[userId].live
    /\ searchTimeouts[userId].rem = 0
    /\ LET found == {i \in 1 .. Len(queue) : queue[i].userId = userId}
       IN  IF found = {}
           THEN /\ searchTimeouts' =
                      [searchTimeouts EXCEPT ![userId] = [live |-> FALSE, rem |-> 0]]
                /\ last' = NoEvent
                /\ UNCHANGED queue
           ELSE LET i      == SetMin(found)
                    player == [queue[i] EXCEPT
                                 !.range = calculateRatingRange(queue[i].rating, queue[i].age),
                                 !.fires = @ + 1]
                    q1     == [queue EXCEPT ![i] = player]
                    res    == findMatch(Svc(q1, searchTimeouts), player)
                IN  /\ queue' = res.svc.queue
                    /\ searchTimeouts' = setExpandingSearch(res.svc, userId).timeouts
                    /\ last' = Event(res.match, FALSE)
    /\ out' = {}
    /\ UNCHANGED <<sockVars, matchVars, readySent, sinceClose>>

----------------------------------------------------------------------------
(* socketHandlers.js: match:ready *)

everyReady(players) == \A i \in 1 .. 2 : players[i].ready

\* Mutant: the match is the one the sender plays in, and it starts as soon as
\* the sender is ready
MatchReadyEager(s) ==
    /\ sockState[s] = "open"
    /\ last' = NoEvent
    /\ LET mine == {id \in DOMAIN activeMatches : s \in PlayerSockets(activeMatches[id])}
       IN  IF mine = {}
           THEN /\ out' = {}
                /\ UNCHANGED activeMatches
           ELSE LET cm      == SetMin(mine)
                    match   == activeMatches[cm]
                    players == [i \in 1 .. 2 |->
                                  IF match.players[i].socketId = s
                                  THEN [match.players[i] EXCEPT !.ready = TRUE]
                                  ELSE match.players[i]]
                IN  /\ activeMatches' =
                         [activeMatches EXCEPT
                            ![cm] = [players |-> players, status |-> "playing"]]
                    /\ out' = EmitRoom(match, "match:start")
    /\ UNCHANGED <<sockVars, mmVars, engineMatches, countdowns, graceTimers, uuids>>

\* socket.on('match:ready')
MatchReady(s) ==
    /\ sockState[s] = "open"
    /\ last' = NoEvent
    /\ LET cm == IF s \in DOMAIN activeConnections
                 THEN activeConnections[s].currentMatch ELSE NoMatch
       IN  IF cm = NoMatch \/ cm \notin DOMAIN activeMatches
           THEN /\ out' = {}
                /\ UNCHANGED activeMatches
           ELSE LET match   == activeMatches[cm]
                    players == [i \in 1 .. 2 |->
                                  IF match.players[i].socketId = s
                                  THEN [match.players[i] EXCEPT !.ready = TRUE]
                                  ELSE match.players[i]]
                    isPlayer == s \in PlayerSockets(match)
                    start    == isPlayer /\ everyReady(players)
                IN  /\ activeMatches' =
                         [activeMatches EXCEPT
                            ![cm] = [players |-> players,
                                     status  |-> IF start THEN "playing" ELSE @.status]]
                    /\ out' = IF start THEN EmitRoom(match, "match:start") ELSE {}
    /\ UNCHANGED <<sockVars, mmVars, engineMatches, countdowns, graceTimers, uuids>>

\* The countdown callback of handleMatchFound (lines 556-561)
Countdown(id) ==
    /\ id \in DOMAIN countdowns
    /\ countdowns[id] = 0
    /\ countdowns' = MapDel(countdowns, id)
    /\ out' = IF id \in DOMAIN activeMatches /\ activeMatches[id].status = "starting"
              THEN EmitRoom(activeMatches[id], "match:countdown")
              ELSE {}
    /\ last' = NoEvent
    /\ UNCHANGED <<sockVars, mmVars, activeMatches, engineMatches, graceTimers, uuids,
                   readySent, sinceClose>>

----------------------------------------------------------------------------
(* Disconnection: socketHandlers.js 502-524, 564-588 and server.js 236-280 *)

\* What the disconnect handlers change besides the queue
World(am, gt, o) == [am |-> am, gt |-> gt, out |-> o]

\* handlePlayerDisconnect: notify the room except the sender, pause, start the timer
handlePlayerDisconnect(w, id, s) ==
    World([w.am EXCEPT ![id].status = "paused"],
          w.gt \cup {[kind |-> "socket", match |-> id, sock |-> s, rem |-> graceDelay]},
          w.out \cup {Emit(x, "player:disconnected", 0) : x \in Room(w.am[id]) \ {s}})

\* Lines 516-523: the part of the socket's disconnect handler after its await
disconnectTail(w, ac, s) ==
    IF /\ s \in DOMAIN ac
       /\ ac[s].currentMatch # NoMatch
       /\ ac[s].currentMatch \in DOMAIN w.am
    THEN handlePlayerDisconnect(w, ac[s].currentMatch, s)
    ELSE w

\* server.js handleMatchDisconnection
handleMatchDisconnection(w, ac, id, s) ==
    World(w.am,
          w.gt \cup {[kind |-> "server", match |-> id, sock |-> s, rem |-> graceDelay]},
          w.out \cup {Emit(x, "opponent-disconnected", 0) :
                         x \in (PlayerSockets(w.am[id]) \ {s}) \cap DOMAIN ac})

\* server.js handleDisconnection: the world and the connection map afterwards
handleDisconnection(w, ac, s) ==
    IF s \notin DOMAIN ac
    THEN [w |-> w, ac |-> ac]
    ELSE [w  |-> IF ac[s].currentMatch # NoMatch /\ ac[s].currentMatch \in DOMAIN w.am
                 THEN handleMatchDisconnection(w, ac, ac[s].currentMatch, s)
                 ELSE w,
          ac |-> MapDel(ac, s)]

\* Matches socket s is a participant of
MatchesOf(s) == {id \in DOMAIN activeMatches : s \in PlayerSockets(activeMatches[id])}


\* The 'disconnect' event of socket s: the socketHandlers.js handler runs up to its
\* await (only taken when socket.userId is set), then the server.js handler runs.
Disconnect(s) ==
    /\ sockState[s] = "open"
    /\ LET svc  == removeFromQueue(Svc(queue, searchTimeouts), sockUser[s])
           w0   == World(activeMatches, graceTimers, {})
           w1   == IF sockUser[s] = NoUser
                   THEN disconnectTail(w0, activeConnections, s) ELSE w0
           res  == handleDisconnection(w1, activeConnections, s)
       IN  /\ queue' = svc.queue
           /\ searchTimeouts' = svc.timeouts
           /\ activeMatches' = res.w.am
           /\ graceTimers' = res.w.gt
           /\ out' = res.w.out
           /\ activeConnections' = res.ac
    /\ sockState' = [sockState EXCEPT
                       ![s] = IF sockUser[s] = NoUser THEN "closed" ELSE "closing"]
    /\ last' = NoEvent
    /\ UNCHANGED <<sockUser, pendingJoin, engineMatches, countdowns, uuids, readySent>>

\* The socketHandlers.js disconnect handler resumes after database.run
DisconnectResume(s) ==
    /\ sockState[s] = "closing"
    /\ LET w == disconnectTail(World(activeMatches, graceTimers, {}),
                               activeConnections, s)
       IN  /\ activeMatches' = w.am
           /\ graceTimers' = w.gt
           /\ out' = w.out
    /\ sockState' = [sockState EXCEPT ![s] = "closed"]
    /\ last' = NoEvent
    /\ UNCHANGED <<sockUser, pendingJoin, activeConnections, mmVars, engineMatches,
                   countdowns, uuids, readySent>>

----------------------------------------------------------------------------
(* GameEngine: ending a match *)

\* endMatch: Completed, interval cleared, winner by score (players[1] unless left leads)
endMatchRight(em, am, id) ==
    IF id \notin DOMAIN em THEN em
    ELSE [em EXCEPT ![id] =
            [@ EXCEPT !.status       = "completed",
                      !.tickInterval = FALSE,
                      !.winner       = am[id].players[2].userId]]

\* endMatch that stops every match the engine keeps, not only the one named
endMatchEvery(em, am, id) ==
    IF id \notin DOMAIN em THEN em
    ELSE [m \in DOMAIN em |->
            [em[m] EXCEPT !.status = "completed", !.tickInterval = FALSE]]

endMatch(em, am, id) ==
    IF id \notin DOMAIN em THEN em
    ELSE [em EXCEPT ![id] =
            [@ EXCEPT !.status       = "completed",
                      !.tickInterval = FALSE,
                      !.winner       = IF em[id].score[1] > em[id].score[2]
                                       THEN am[id].players[1].userId
                                       ELSE am[id].players[2].userId]]

removeMatch(em, id) == IF id \in DOMAIN em THEN MapDel(em, id) ELSE em

\* JavaScript values a caller can hand over as paddleY besides finite numbers
Infinity  == Px(1000000)
NaN       == Px(2000000)
Undefined == Px(3000000)        \* any value whose typeof is not 'number'

\* typeof v === 'number', a < b, a <= b, a + b, Math.min, Math.max
jsIsNumber(v) == v # Undefined
jsLt(a, b)  == a # NaN /\ b # NaN /\ a < b
jsLe(a, b)  == a # NaN /\ b # NaN /\ a <= b
jsAdd(a, b) == IF a = NaN \/ b = NaN THEN NaN ELSE a + b
jsMin(a, b) == IF a = NaN \/ b = NaN THEN NaN ELSE Min(a, b)
jsMax(a, b) == IF a = NaN \/ b = NaN THEN NaN ELSE Max(a, b)
Abs(a)      == IF a < 0 THEN 0 - a ELSE a

\* validateInput(input), for input.paddleY
validateInput(paddleY) ==
    /\ jsIsNumber(paddleY)
    /\ ~ (jsLt(paddleY, Px(50)) \/ jsLt(Px(550), paddleY))

paddleOfSwapped(playerIndex) == IF playerIndex = 1 THEN "right" ELSE "left"

\* The paddle of players[playerIndex - 1]
paddleOf(playerIndex) == IF playerIndex = 1 THEN "left" ELSE "right"

\* updatePlayerInput(matchId, playerId, input): what it returns and the matches
updatePlayerInput(em, am, id, playerId, paddleY) ==
    IF id \notin DOMAIN em \/ em[id].status # "playing"
    THEN [ok |-> FALSE, em |-> em]
    ELSE LET found == {i \in 1 .. 2 : am[id].players[i].userId = playerId}
             y     == jsMax(Px(50), jsMin(Px(550), paddleY))
         IN  IF found = {} \/ ~ validateInput(paddleY)
             THEN [ok |-> FALSE, em |-> em]
             ELSE [ok |-> TRUE,
                   em |-> [em EXCEPT ![id].paddles[paddleOf(SetMin(found))] = y]]

\* The two tests of handlePaddleCollision
hitsLeft(ball, paddles) ==
    /\ ball.x <= Px(20) /\ ball.x >= Px(10)
    /\ jsLe(jsAdd(paddles.left, 0 - Px(50)), ball.y)
    /\ jsLe(ball.y, jsAdd(paddles.left, Px(50)))

hitsRight(ball, paddles) ==
    /\ ball.x >= Px(780) /\ ball.x <= Px(790)
    /\ jsLe(jsAdd(paddles.right, 0 - Px(50)), ball.y)
    /\ jsLe(ball.y, jsAdd(paddles.right, Px(50)))

deflectMirrored(paddleY, ballY) == ((paddleY - ballY) * 5) \div 50

\* -relativeIntersectY * 5 with relativeIntersectY = (paddle.y - ball.y) / 50
deflect(paddleY, ballY) == (0 - ((paddleY - ballY) * 5)) \div 50

\* The quotient above is kept exactly
deflectExact(paddleY, ballY) == ((paddleY - ballY) * 5) % 50 = 0

handlePaddleCollision(ball, paddles) ==
    LET b1 == IF hitsLeft(ball, paddles)
              THEN [ball EXCEPT !.vx = Abs(@), !.vy = deflect(paddles.left, ball.y)]
              ELSE ball
    IN  IF hitsRight(b1, paddles)
        THEN [b1 EXCEPT !.vx = 0 - Abs(@), !.vy = deflect(paddles.right, b1.y)]
        ELSE b1

\* resetBall, with rnd the two draws of Math.random() as the velocities they give
resetBall(rnd) == [x |-> Px(400), y |-> Px(300), vx |-> rnd.vx, vy |-> rnd.vy]

moveBallThroughWalls(ball, frames) ==
    [ball EXCEPT !.x = @ + ball.vx * frames, !.y = @ + ball.vy * frames]

moveBallOneFrame(ball, frames) ==
    LET moved == [ball EXCEPT !.x = @ + ball.vx, !.y = @ + ball.vy]
    IN  IF moved.y <= Px(10) \/ moved.y >= Px(590)
        THEN [moved EXCEPT !.vy = 0 - @, !.y = Max(Px(10), Min(Px(590), @))]
        ELSE moved

\* The ball after the movement and the wall test of updateGameState, frames being
\* deltaTime * 60
moveBall(ball, frames) ==
    LET moved == [ball EXCEPT !.x = @ + ball.vx * frames, !.y = @ + ball.vy * frames]
    IN  IF moved.y <= Px(10) \/ moved.y >= Px(590)
        THEN [moved EXCEPT !.vy = 0 - @, !.y = Max(Px(10), Min(Px(590), @))]
        ELSE moved

addPointToLeft(score, left, right) ==
    <<score[1] + (IF left \/ right THEN 1 ELSE 0), score[2]>>

\* A goal that counts two points
addPointTwice(score, left, right) ==
    <<score[1] + (IF left THEN 2 ELSE 0), score[2] + (IF right THEN 2 ELSE 0)>>

\* score++ of the paddle opposite the edge the ball left by: left is the left
\* paddle's point (ball.x >= 800), right the right paddle's (ball.x <= 0)
addPoint(score, left, right) ==
    <<score[1] + (IF left THEN 1 ELSE 0), score[2] + (IF right THEN 1 ELSE 0)>>

\* updateGameState(matchId) past its early return, when deltaTime * 60 = frames:
\* the matches afterwards
gameStep(em, am, id, frames, rnd) ==
         LET m      == em[id]
             ball   == handlePaddleCollision(moveBall(m.ball, frames), m.paddles)
             right  == ball.x <= 0
             left   == ~ right /\ ball.x >= Px(800)
             score  == addPoint(m.score, left, right)
             em1    == [em EXCEPT ![id] =
                          [@ EXCEPT !.ball     = IF left \/ right THEN resetBall(rnd)
                                                 ELSE ball,
                                    !.score    = score,
                                    !.lastTick = @ + frames]]
         IN  IF score[1] >= 11 \/ score[2] >= 11 THEN endMatch(em1, am, id) ELSE em1

updateGameStateUnlessCompleted(em, am, id, frames, rnd) ==
    IF id \notin DOMAIN em \/ em[id].status = "completed" THEN em
    ELSE gameStep(em, am, id, frames, rnd)

updateGameState(em, am, id, frames, rnd) ==
    IF id \notin DOMAIN em \/ em[id].status # "playing" THEN em
    ELSE gameStep(em, am, id, frames, rnd)

\* The grace callback of handlePlayerDisconnect (lines 574-587)
GraceExpireLoud(t) ==
    /\ t \in graceTimers
    /\ t.kind = "socket"
    /\ t.rem = 0
    /\ graceTimers' = graceTimers \ {t}
    /\ engineMatches' = removeMatch(engineMatches, t.match)
    /\ activeMatches' = IF t.match \in DOMAIN activeMatches
                        THEN MapDel(activeMatches, t.match) ELSE activeMatches
    /\ out' = {Emit(x, "match:ended:player_disconnect", NoUser) :
                  x \in {s \in Sockets : sockState[s] = "open"}}
    /\ last' = NoEvent
    /\ UNCHANGED <<sockVars, mmVars, countdowns, uuids, readySent, sinceClose>>

GraceExpire(t) ==
    /\ t \in graceTimers
    /\ t.kind = "socket"
    /\ t.rem = 0
    /\ graceTimers' = graceTimers \ {t}
    /\ IF t.match \in DOMAIN activeMatches /\ activeMatches[t.match].status = "paused"
       THEN LET match  == activeMatches[t.match]
                others == {i \in 1 .. 2 : match.players[i].socketId # t.sock}
                winner == IF others = {} THEN NoUser
                          ELSE match.players[SetMin(others)].userId
            IN  /\ engineMatches' =
                      removeMatch(endMatch(engineMatches, activeMatches, t.match), t.match)
                /\ activeMatches' = MapDel(activeMatches, t.match)
                /\ out' = {Emit(x, "match:ended:player_disconnect", winner) :
                              x \in Room(match)}
       ELSE /\ out' = {}
            /\ UNCHANGED <<activeMatches, engineMatches>>
    /\ last' = NoEvent
    /\ UNCHANGED <<sockVars, mmVars, countdowns, uuids, readySent, sinceClose>>

\* The grace callback of server.js handleMatchDisconnection, with server.js endMatch
ServerGraceExpire(t) ==
    /\ t \in graceTimers
    /\ t.kind = "server"
    /\ t.rem = 0
    /\ graceTimers' = graceTimers \ {t}
    /\ IF t.match \in DOMAIN activeMatches
       THEN /\ activeConnections' =
                 [c \in DOMAIN activeConnections |->
                     IF c \in PlayerSockets(activeMatches[t.match])
                     THEN [activeConnections[c] EXCEPT !.currentMatch = NoMatch]
                     ELSE activeConnections[c]]
            /\ activeMatches' = MapDel(activeMatches, t.match)
       ELSE UNCHANGED <<activeConnections, activeMatches>>
    /\ out' = {}
    /\ last' = NoEvent
    /\ UNCHANGED <<sockState, sockUser, pendingJoin, mmVars, engineMatches, countdowns,
                   uuids, readySent, sinceClose>>

----------------------------------------------------------------------------
(* Time *)

Deadlines ==
    {searchTimeouts[u].rem : u \in {x \in DOMAIN searchTimeouts : searchTimeouts[x].live}}
    \cup {countdowns[id] : id \in DOMAIN countdowns}
    \cup {t.rem : t \in graceTimers}

\* TimeStep of time passes, while no entry has waited longer than limit.  A due
\* timer fires before time passes further; a timer whose delay ends inside the
\* step is due at the end of the step.
Elapse(limit) ==
    LET d == TimeStep
        left(rem) == Max(0, rem - d)
    IN  /\ 0 \notin Deadlines
        /\ \A i \in 1 .. Len(queue) : queue[i].age + d <= limit
        /\ queue' = [i \in 1 .. Len(queue) |-> [queue[i] EXCEPT !.age = @ + d]]
        /\ searchTimeouts' =
             [u \in DOMAIN searchTimeouts |->
                 IF searchTimeouts[u].live
                 THEN [searchTimeouts[u] EXCEPT !.rem = left(@)]
                 ELSE searchTimeouts[u]]
        /\ countdowns' = [id \in DOMAIN countdowns |-> left(countdowns[id])]
        /\ graceTimers' = {[t EXCEPT !.rem = left(@)] : t \in graceTimers}
        /\ out' = {}
        /\ last' = NoEvent
        /\ UNCHANGED <<sockVars, activeMatches, engineMatches, uuids, readySent>>

Advance == Elapse(MaxWait)

----------------------------------------------------------------------------
(* The server *)

Init ==
    /\ sockState = [s \in Sockets |-> "unused"]
    /\ sockUser = [s \in Sockets |-> NoUser]
    /\ pendingJoin = [s \in Sockets |-> 0]
    /\ activeConnections = EmptyMap
    /\ queue = <<>>
    /\ searchTimeouts = EmptyMap
    /\ activeMatches = EmptyMap
    /\ engineMatches = EmptyMap
    /\ countdowns = EmptyMap
    /\ graceTimers = {}
    /\ uuids = {}
    /\ out = {}
    /\ last = NoEvent
    /\ readySent = EmptyMap
    /\ sinceClose = <<>>

----------------------------------------------------------------------------
(* Observers: what the clients did, kept for the properties *)

\* A match:ready sent by socket s is counted for the matches s plays in
countReady(s) ==
    [id \in DOMAIN readySent |->
        readySent[id] \cup
            {i \in 1 .. 2 : /\ id \in DOMAIN activeMatches
                            /\ activeMatches[id].players[i].socketId = s}]

\* The disconnect of s is processed: the first participant to drop is followed
dropped(s) ==
    IF sockState'[s] = "closed" /\ sinceClose = <<>> /\ MatchesOf(s) # {}
    THEN <<s, 0>> ELSE sinceClose

\* Time passes for the dropped participant, followed until the grace delay is over
elapsed ==
    IF sinceClose = <<>> THEN <<>>
    ELSE <<sinceClose[1], Min(graceDelay + TimeStep, sinceClose[2] + TimeStep)>>

\* Every handler, with the observers at rest
Next ==
    \/ \E u \in Users \cup {NoUser} : Connect(u, MaxSockets)
    \/ \E s \in Sockets : JoinStart(s)
    \/ \E s \in Sockets : JoinError(s)
    \/ \E s \in Sockets : JoinNoUser(s)
    \/ \E s \in Sockets, r \in Ratings : JoinFinish(s, r)
    \/ \E s \in Sockets : Leave(s)
    \/ \E u \in Users : expandSearch(u)
    \/ \E s \in Sockets : MatchReady(s) /\ UNCHANGED <<readySent, sinceClose>>
    \/ \E id \in MatchIds : Countdown(id)
    \/ \E s \in Sockets : Disconnect(s) /\ UNCHANGED sinceClose
    \/ \E s \in Sockets : DisconnectResume(s) /\ UNCHANGED sinceClose
    \/ Advance /\ UNCHANGED sinceClose

Spec == Init /\ [][Next]_vars

\* Every handler, with reconnection and the observers; all ratings are equal
NextMatch ==
    \/ \E u \in Users \cup {NoUser} : Connect(u, MaxSockets + MaxReopen)
    \/ \E s \in Sockets : JoinStart(s)
    \/ \E s \in Sockets : JoinError(s)
    \/ \E s \in Sockets : JoinNoUser(s)
    \/ \E s \in Sockets : JoinFinish(s, SetMin(Ratings))
                                        /\ Cardinality(uuids') <= MaxRematch
    \/ \E s \in Sockets : Leave(s)
    \/ \E u \in Users : expandSearch(u)
    \/ \E s \in Sockets : MatchReady(s) /\ readySent' = countReady(s)
                                        /\ UNCHANGED sinceClose
    \/ \E id \in MatchIds : Countdown(id)
    \/ \E s \in Sockets : Disconnect(s) /\ sinceClose' = dropped(s)
    \/ \E s \in Sockets : DisconnectResume(s) /\ sinceClose' = dropped(s)
    \/ Advance /\ sinceClose' = elapsed

SpecMatch == Init /\ [][NextMatch]_vars

\* No grace timer is ever scheduled, so GraceExpire and ServerGraceExpire have
\* no step to take
NoGraceTimer == graceTimers = {}

----------------------------------------------------------------------------
(* Properties *)

LiveMatches      == {id \in DOMAIN activeMatches : activeMatches[id].status # "completed"}
Participants(id) == {activeMatches[id].players[i].userId : i \in 1 .. 2}
Queued           == {queue[i].userId : i \in 1 .. Len(queue)}
MatchesOfUser(u) == {id \in LiveMatches : u \in Participants(id)}
Found(s)         == \E e \in out : e.to = s /\ e.msg = "match:found"

\* C1: no identity is a participant of two live matches, and no identity is at
\* once in the queue and a participant of a live match.
C1_NoDoubleBooking ==
    \A u \in Users :
        /\ Cardinality(MatchesOfUser(u)) <= 1
        /\ ~(u \in Queued /\ MatchesOfUser(u) # {})

\* C2: whenever a pairing takes two entries out of the queue, on enqueue or on an
\* expansion firing, a match of exactly those two identities is registered in
\* activeMatches and gameEngine.matches and match:found is emitted to both.
C2_PairingRegistersMatch ==
    last.pair # <<>> =>
        \E id \in DOMAIN activeMatches \cap DOMAIN engineMatches :
            LET players == activeMatches[id].players
            IN  /\ <<players[1].userId, players[2].userId>> = last.pair
                /\ Found(players[1].socketId)
                /\ Found(players[2].socketId)

\* C3: when the queue holds one entry and a different identity whose rating is
\* within 150 of it is enqueued, that very call pairs the two: the queue is empty
\* afterwards and a match of exactly the two is registered.
C3_ImmediateMatch ==
    [][\A s \in Sockets, r \in Ratings :
          (/\ Len(queue) = 1
           /\ sockUser[s] # NoUser
           /\ queue[1].userId # sockUser[s]
           /\ r - queue[1].rating <= 150
           /\ queue[1].rating - r <= 150
           /\ JoinFinish(s, r))
          => /\ queue' = <<>>
             /\ last'.pair = <<sockUser[s], queue[1].userId>>
             /\ \E id \in DOMAIN activeMatches' \ DOMAIN activeMatches :
                   /\ activeMatches'[id].players[1].userId = sockUser[s]
                   /\ activeMatches'[id].players[2].userId = queue[1].userId
                   /\ id \in DOMAIN engineMatches']_vars

\* C3 happens: two identities rated exactly 150 apart have just been paired by an
\* enqueue, and the queue is empty
C3_Witness ==
    /\ queue = <<>>
    /\ last.pair # <<>>
    /\ \E e1, e2 \in out :
          /\ e1.msg = "match:found" /\ e2.msg = "match:found"
          /\ e1.to # e2.to
          /\ e1.arg - e2.arg = 150

Dropped      == sinceClose # <<>>
DroppedUser  == sockUser[sinceClose[1]]
DroppedSince == sinceClose[2]
\* The dropped identity has had no other connection
Away ==
    /\ Dropped
    /\ \A c \in Sockets \ {sinceClose[1]} :
          sockState[c] = "unused" \/ sockUser[c] # DroppedUser
\* The matches of the dropped participant in which both participants were ready
StartedMatches ==
    {id \in MatchIds : /\ id \in DOMAIN readySent
                       /\ readySent[id] = {1, 2}
                       /\ id \in uuids}

\* C5: once both disconnect handlers have run for a participant of a match that
\* both participants had started with match:ready, the match is paused and a
\* 30-second grace timer is pending for it (with the notification, this is what
\* the disconnect of a participant of a Playing match has to do).
C5_DisconnectPauses ==
    (Away /\ DroppedSince = 0) =>
        \A id \in StartedMatches \cap MatchesOf(sinceClose[1]) :
            /\ activeMatches[id].status = "paused"
            /\ \E t \in graceTimers : t.match = id /\ t.rem = 30000

\* C6: when the dropped identity opens a new connection less than 30 seconds after
\* its disconnect, with its match still registered, the new connection's
\* currentMatch is that match and the match is Playing again.
C6_ReconnectResumes ==
    [][\A c \in Sockets :
          (/\ Dropped
           /\ DroppedUser # NoUser
           /\ DroppedSince < 30000
           /\ sockState[c] = "unused"
           /\ sockState'[c] = "open"
           /\ sockUser'[c] = DroppedUser)
          => \A id \in StartedMatches \cap MatchesOf(sinceClose[1]) :
                /\ activeConnections'[c].currentMatch = id
                /\ activeMatches'[id].status = "playing"]_vars

\* C7: when a participant has been disconnected for more than 30 seconds and its
\* identity has not connected again, its match is no longer registered in
\* activeMatches or in gameEngine.matches.
C7_GraceExpiryEndsMatch ==
    (Away /\ DroppedSince > 30000) =>
        /\ MatchesOf(sinceClose[1]) = {}
        /\ DOMAIN engineMatches \subseteq DOMAIN activeMatches

ErrorMessages == {"error:Failed to join matchmaking", "error:User not found",
                  "error:Already in a match"}

\* C8: a matchmaking:join that completes for an identity that is a participant of
\* a live match sends an error to the caller and changes neither the queue nor
\* any match.
C8_JoinInMatchRejected ==
    [][\A s \in Sockets :
          (/\ pendingJoin'[s] < pendingJoin[s]
           /\ sockUser[s] # NoUser
           /\ MatchesOfUser(sockUser[s]) # {})
          => /\ UNCHANGED <<queue, activeMatches, engineMatches>>
             /\ \E e \in out' : e.to = s /\ e.msg \in ErrorMessages]_vars

\* C9: the queue never holds two entries of one identity, and an enqueue of an
\* identity that is already queued, when no match results, leaves exactly one
\* entry for it: the new rating, no time waited, the initial range of +/-150.
C9_OneEntryPerIdentity ==
    /\ [](\A i, j \in 1 .. Len(queue) : queue[i].userId = queue[j].userId => i = j)
    /\ [][\A s \in Sockets, r \in Ratings :
            (/\ sockUser[s] \in Queued
             /\ JoinFinish(s, r)
             /\ last'.pair = <<>>)
            => LET mine == {i \in 1 .. Len(queue') : queue'[i].userId = sockUser[s]}
               IN  /\ Cardinality(mine) = 1
                   /\ \A i \in mine :
                        /\ queue'[i].rating = r
                        /\ queue'[i].age = 0
                        /\ queue'[i].fires = 0
                        /\ queue'[i].range = [min |-> Max(800, r - 150),
                                              max |-> Min(3000, r + 150)]]_vars

\* C9 happens: an enqueue has just replaced the entry of its identity, beside the
\* entry of another identity, without a match
C9_Witness ==
    /\ last.replaced
    /\ last.pair = <<>>
    /\ Len(queue) = 2
    /\ queue[2].age = 0
    /\ queue[1].age > 0

\* C10: an entry whose expansion timer has fired k >= 1 times has the range
\* [max(800, r - (150 + 50k)), min(3000, r + (150 + 50k))], and it has waited at
\* least k intervals of 15 seconds: one increment of 50 per interval at most.
C10_RangeAfterExpansions ==
    \A i \in 1 .. Len(queue) :
        LET r == queue[i].rating
            k == queue[i].fires
        IN  /\ k * 15000 <= queue[i].age
            /\ k >= 1 =>
                 queue[i].range = [min |-> Max(800, r - (150 + 50 * k)),
                                   max |-> Min(3000, r + (150 + 50 * k))]

\* C10 happens: after 45 seconds and three firings an entry has r +/- 300, once
\* clamped at the ceiling and once clamped at the floor
C10_Witness ==
    /\ \E i \in 1 .. Len(queue) :
          /\ queue[i].fires = 3 /\ queue[i].age = 45000
          /\ queue[i].rating = 2900
          /\ queue[i].range = [min |-> 2600, max |-> 3000]
    /\ \E i \in 1 .. Len(queue) :
          /\ queue[i].fires >= 1
          /\ queue[i].rating = 950
          /\ queue[i].range.min = 800

----------------------------------------------------------------------------
(* The exported matchmakingService on its own: its methods called for four
   identities, its timers and the passage of time *)

Entrants == Users \cup {"u3", "u4"}
EntrantNo(u) == IF u \in Users THEN UserNo(u) ELSE IF u = "u3" THEN 3 ELSE 4

\* Identities the service holds nothing of are alike: the first of them calls
Callers ==
    LET held  == {queue[i].userId : i \in 1 .. Len(queue)} \cup DOMAIN searchTimeouts
        fresh == Entrants \ held
    IN  held \cup {u \in fresh : \A v \in fresh : EntrantNo(u) <= EntrantNo(v)}

\* Ratings of the callers: two entries can wait side by side, a third fits both
QueueRatings == Ratings \ {950}

\* matchmakingService.addToQueue(player) for identity u with rating r
SvcAdd(u, r) ==
    /\ u \in Callers
    /\ LET player == [userId |-> u, socketId |-> SetMin(Sockets), rating |-> r]
           res    == addToQueue(Svc(queue, searchTimeouts), player)
           was    == \E i \in 1 .. Len(queue) : queue[i].userId = u
       IN  /\ queue' = res.svc.queue
           /\ searchTimeouts' = res.svc.timeouts
           /\ last' = Event(res.match, was)
    /\ out' = {}
    /\ UNCHANGED <<sockVars, matchVars, readySent, sinceClose>>

\* matchmakingService.removeFromQueue(userId) for a queued identity
SvcRemove(u) ==
    /\ \E i \in 1 .. Len(queue) : queue[i].userId = u
    /\ LET res == removeFromQueue(Svc(queue, searchTimeouts), u)
       IN  /\ queue' = res.queue
           /\ searchTimeouts' = res.timeouts
    /\ out' = {}
    /\ last' = NoEvent
    /\ UNCHANGED <<sockVars, matchVars, readySent, sinceClose>>

NextQueue ==
    \/ \E u \in Entrants, r \in QueueRatings : SvcAdd(u, r)
    \/ \E u \in Entrants : SvcRemove(u)
    \/ \E u \in Entrants : expandSearch(u)
    \/ Advance /\ UNCHANGED sinceClose

SpecQueue == Init /\ [][NextQueue]_vars

\* The test of findMatch, stated on its own: either rating within the other's range
Qualifies(e, o) ==
    \/ e.range.min <= o.rating /\ o.rating <= e.range.max
    \/ o.range.min <= e.rating /\ e.rating <= o.range.max

\* What a search for entry e in queue q has to give: the pair and the queue left
Expected(q, e) ==
    LET cands == {i \in 1 .. Len(q) : q[i].userId # e.userId /\ Qualifies(e, q[i])}
        first == CHOOSE i \in cands : \A j \in cands : i <= j
    IN  IF cands = {}
        THEN [pair |-> <<>>, queue |-> q]
        ELSE [pair  |-> <<e.userId, q[first].userId>>,
              queue |-> SelectSeq(q, LAMBDA x : x.userId \notin {e.userId, q[first].userId})]

\* The entry addToQueue makes for identity u with rating r
Fresh(u, r) ==
    [userId |-> u, socketId |-> SetMin(Sockets), rating |-> r, age |-> 0, fires |-> 0,
     range |-> [min |-> Max(800, r - 150), max |-> Min(3000, r + 150)]]

\* The entry e after one more firing of its expansion timer
Widened(e) ==
    LET width == 150 + 50 * (e.age \div 15000)
    IN  [e EXCEPT !.fires = @ + 1,
                  !.range = [min |-> Max(800, e.rating - width),
                             max |-> Min(3000, e.rating + width)]]

\* The calls of findMatch the service can make in this state: the queue and the
\* entry handed over by addToQueue (a new entry, appended after the identity's
\* old one is removed) or by an expansion firing (a queued entry, widened)
Searches ==
    {[q |-> Append(SelectSeq(queue, LAMBDA x : x.userId # u), Fresh(u, r)),
      e |-> Fresh(u, r)] : u \in Entrants, r \in QueueRatings}
    \cup {[q |-> [queue EXCEPT ![i] = Widened(queue[i])], e |-> Widened(queue[i])] :
             i \in {j \in 1 .. Len(queue) :
                       /\ queue[j].userId \in DOMAIN searchTimeouts
                       /\ searchTimeouts[queue[j].userId].rem = 0}}

Candidates(c) ==
    {i \in 1 .. Len(c.q) : c.q[i].userId # c.e.userId /\ Qualifies(c.e, c.q[i])}

\* C11: findMatch(entry) pairs entry with the first entry in queue order, other
\* than itself, that passes the OR test; it returns no match exactly when no
\* entry passes; on a hit exactly the two leave the queue and the other entries
\* keep their order.
C11_FirstQualifyingOpponent ==
    \A c \in Searches :
        LET res == findMatch(Svc(c.q, searchTimeouts), c.e)
            exp == Expected(c.q, c.e)
        IN  /\ res.svc.queue = exp.queue
            /\ Event(res.match, FALSE).pair = exp.pair
            /\ (res.match = <<>>) <=> (Candidates(c) = {})

\* C11 happens: a search finds two qualifying entries among three others, the
\* first of them behind an entry that does not qualify
C11_Witness ==
    \E c \in Searches :
        /\ Len(c.q) = 4
        /\ Cardinality(Candidates(c)) = 2
        /\ 1 \notin Candidates(c)

\* C12: while the queue holds exactly one entry, a step that is not the completion
\* of an enqueue, a leave or a disconnect (an expansion firing, the passage of
\* time, any other handler) creates no match and keeps that entry queued.
C12_SolitaryEntryStays ==
    [][(/\ Len(queue) = 1
        /\ pendingJoin' = pendingJoin
        /\ sockState' = sockState
        /\ \A e \in out' : e.msg # "matchmaking:left")
       => /\ Len(queue') = 1
          /\ queue'[1].userId = queue[1].userId
          /\ queue'[1].rating = queue[1].rating
          /\ last'.pair = <<>>
          /\ DOMAIN activeMatches' = DOMAIN activeMatches
          /\ DOMAIN engineMatches' = DOMAIN engineMatches]_vars

\* C12 happens: the only entry of the queue has seen its timer fire three times
C12_Witness ==
    /\ Len(queue) = 1
    /\ queue[1].fires = 3
    /\ activeMatches = EmptyMap

----------------------------------------------------------------------------
(* Two identities that stay queued, followed until every range is the whole
   of [800, 3000] *)

\* The firings after which a range covers every rating, and the wait they take
FullExpand == (ratingCeiling - ratingFloor - baseRange + expansionRate - 1)
                  \div expansionRate
FullWait   == FullExpand * expansionInterval

\* The ratings furthest apart
LiveRatings == {ratingFloor, ratingCeiling}

\* The service with enqueues of identities that are not queued, timers and time
NextLive ==
    \/ \E u \in Users, r \in LiveRatings : SvcAdd(u, r) /\ u \notin Queued
    \/ \E u \in Users : expandSearch(u)
    \/ Elapse(FullWait) /\ UNCHANGED sinceClose

\* Timers that are due fire, and time passes
SpecLive ==
    /\ Init /\ [][NextLive]_vars
    /\ WF_vars(\E u \in Users : expandSearch(u))
    /\ WF_vars(Elapse(FullWait) /\ UNCHANGED sinceClose)

C14_TimerIffQueued ==
    \A u \in Users :
        (u \in DOMAIN searchTimeouts /\ searchTimeouts[u].live) <=> u \in Queued

----------------------------------------------------------------------------
(* handlePlayerDisconnect as a function: applied to a registered match and the
   socket of one of its participants, whatever the status of the match.  In the
   server its only call (line 520) is behind the currentMatch lookup. *)

CallHandlePlayerDisconnect(id, s) ==
    /\ id \in DOMAIN activeMatches
    /\ s \in PlayerSockets(activeMatches[id])
    /\ ~ \E t \in graceTimers : t.match = id /\ t.sock = s
    /\ LET w == handlePlayerDisconnect(World(activeMatches, graceTimers, {}), id, s)
       IN  /\ activeMatches' = w.am
           /\ graceTimers' = w.gt
           /\ out' = w.out
    /\ last' = NoEvent
    /\ UNCHANGED <<sockVars, mmVars, engineMatches, countdowns, uuids, readySent,
                   sinceClose>>

NextHandlers ==
    \/ \E u \in Users : Connect(u, MaxSockets)
    \/ \E s \in Sockets : JoinStart(s)
    \/ \E s \in Sockets : JoinFinish(s, SetMin(Ratings))
    \/ \E id \in MatchIds : Countdown(id)
    \/ \E id \in MatchIds, s \in Sockets : CallHandlePlayerDisconnect(id, s)
    \/ \E t \in graceTimers : GraceExpire(t)
    \/ Advance /\ UNCHANGED sinceClose

SpecHandlers == Init /\ [][NextHandlers]_vars

\* The changes of status the state machine of a match has
StatusChanges ==
    {<<"starting", "countingdown">>, <<"countingdown", "playing">>,
     <<"playing", "paused">>, <<"paused", "playing">>}
    \cup {<<x, "completed">> : x \in {"starting", "countingdown", "playing", "paused"}}

-----------------------------------------------------------------------------
\* The exported gameEngine on its own: a caller creates one match with
\* gameEngine.createMatch(matchId, matchData), then the interval ticks and the
\* players send input.

MaxFrames == 3                    \* frames of play a match is followed for
Frames    == {0, 1, 3}            \* deltaTime * 60 of one tick
Serves    == [vx : {Px(5), 0 - Px(5)}, vy : {0 - Px(3), Px(2)}]
Statuses  == {"starting", "playing", "paused", "completed"}
Balls     == [x  : {Px(400), Px(25), Px(5), Px(775), Px(795)},
              y  : {Px(300), Px(12), Px(588), Px(253), Px(203)},
              vx : {Px(5), 0 - Px(5)},
              vy : {0 - Px(3), Px(3)}]
Scores    == {<<0, 0>>, <<10, 10>>, <<10, 3>>}
PaddleYs  == {Px(49), Px(50), Px(550), Px(600), NaN, Infinity, 0 - Infinity, Undefined}
EngineMatch == uuidv4(1)

\* matchData as matchmakingService.createMatch and handleMatchFound build it
matchData ==
    [players |-> [i \in 1 .. 2 |->
                    participant([userId |-> IF i = 1 THEN "u1" ELSE "u2",
                                 socketId |-> i])],
     status  |-> "starting"]

InitEngine ==
    /\ sockState = [s \in Sockets |-> "unused"]
    /\ sockUser = [s \in Sockets |-> NoUser]
    /\ pendingJoin = [s \in Sockets |-> 0]
    /\ activeConnections = EmptyMap
    /\ queue = <<>>
    /\ searchTimeouts = EmptyMap
    /\ activeMatches = MapSet(EmptyMap, EngineMatch, matchData)
    /\ \E status \in Statuses, ball \in Balls, score \in Scores :
          engineMatches = MapSet(EmptyMap, EngineMatch,
                                 [engineCreateMatch(status) EXCEPT
                                     !.ball = ball, !.score = score])
    /\ countdowns = EmptyMap
    /\ graceTimers = {}
    /\ uuids = {EngineMatch}
    /\ out = {}
    /\ last = NoEvent
    /\ readySent = EmptyMap
    /\ sinceClose = <<>>

engineRest == <<sockVars, mmVars, activeMatches, countdowns, graceTimers, uuids,
                last, readySent, sinceClose>>

\* The ticks followed: within MaxFrames, and with an exact deflection
tickFollowed(id, frames) ==
    id \in DOMAIN engineMatches /\ engineMatches[id].status = "playing"
         => /\ engineMatches[id].lastTick + frames <= MaxFrames
            /\ LET m == engineMatches[id]
                   b == moveBall(m.ball, frames)
               IN  /\ hitsLeft(b, m.paddles)  => deflectExact(m.paddles.left, b.y)
                   /\ hitsRight(b, m.paddles) => deflectExact(m.paddles.right, b.y)

\* updateGameState(matchId), run by the interval of startGameLoop or by a caller
Tick(id, frames, rnd) ==
    /\ tickFollowed(id, frames)
    /\ engineMatches' = updateGameState(engineMatches, activeMatches, id, frames, rnd)
    /\ out' = {Emit(id, "updateGameState", frames)}
    /\ UNCHANGED engineRest

\* gameEngine.updatePlayerInput(matchId, playerId, {paddleY})
Input(id, playerId, paddleY) ==
    LET res == updatePlayerInput(engineMatches, activeMatches, id, playerId, paddleY)
    IN  /\ engineMatches' = res.em
        /\ out' = {Emit(id, "updatePlayerInput", IF res.ok THEN 1 ELSE 0)}
        /\ UNCHANGED engineRest

NextEngine ==
    \/ \E id \in MatchIds, frames \in Frames, rnd \in Serves : Tick(id, frames, rnd)
    \/ \E id \in MatchIds, u \in Users \cup {NoUser}, y \in PaddleYs : Input(id, u, y)

SpecEngine == InitEngine /\ [][NextEngine]_vars

\* The ticks the interval can run in this state
TickCalls ==
    {c \in [id : MatchIds, frames : Frames, rnd : Serves] : tickFollowed(c.id, c.frames)}

Playing(id) == id \in DOMAIN engineMatches /\ engineMatches[id].status = "playing"

Ticked(id) == \E e \in out : e.to = id /\ e.msg = "updateGameState"

\* C16: a tick of a playing match whose scores are both below 11 completes the
\* match exactly when it takes a score to 11, and then the winner is players[0] if
\* that score is the left paddle's and players[1] if it is the right paddle's; a
\* tick that leaves both scores below 11 (10-10 included) leaves the match playing.
C16_ElevenEndsMatch ==
    \A c \in TickCalls :
        (Playing(c.id) /\ engineMatches[c.id].score[1] < 11
                       /\ engineMatches[c.id].score[2] < 11)
        => LET after   == updateGameState(engineMatches, activeMatches,
                                          c.id, c.frames, c.rnd)[c.id]
               players == activeMatches[c.id].players
           IN  /\ after.status = "completed"
                    <=> (after.score[1] = 11 \/ after.score[2] = 11)
               /\ after.status \in {"playing", "completed"}
               /\ after.score[1] = 11 => after.winner = players[1].userId
               /\ after.score[2] = 11 => after.winner = players[2].userId
               /\ after.status = "playing" => after.winner = NoUser

\* The left paddle has just won 11-10
C16_Witness ==
    /\ Ticked(EngineMatch)
    /\ engineMatches[EngineMatch].status = "completed"
    /\ engineMatches[EngineMatch].score = <<11, 10>>
    /\ engineMatches[EngineMatch].winner = "u1"
    /\ ~ engineMatches[EngineMatch].tickInterval

\* The calls of updatePlayerInput a caller can make
InputCalls == [id : MatchIds, playerId : Users \cup {NoUser}, paddleY : PaddleYs]

IsParticipant(id, u) == \E i \in 1 .. 2 : activeMatches[id].players[i].userId = u

FiniteInRange(y) ==
    /\ y \notin {NaN, Infinity, 0 - Infinity, Undefined}
    /\ Px(50) <= y /\ y <= Px(550)

\* C17: updatePlayerInput returns false and leaves every match as it was when the
\* match is unknown or not playing, when the identity is not a participant, or
\* when paddleY is not a finite number within [50,550].
C17_BadInputRejected ==
    \A c \in InputCalls :
        (\/ ~ Playing(c.id)
         \/ ~ IsParticipant(c.id, c.playerId)
         \/ ~ FiniteInRange(c.paddleY))
        => updatePlayerInput(engineMatches, activeMatches, c.id, c.playerId, c.paddleY)
             = [ok |-> FALSE, em |-> engineMatches]

\* C17, without NaN: every other bad call is rejected without a change.
C17_BadInputRejectedButNaN ==
    \A c \in InputCalls :
        (/\ c.paddleY # NaN
         /\ \/ ~ Playing(c.id)
            \/ ~ IsParticipant(c.id, c.playerId)
            \/ ~ FiniteInRange(c.paddleY))
        => updatePlayerInput(engineMatches, activeMatches, c.id, c.playerId, c.paddleY)
             = [ok |-> FALSE, em |-> engineMatches]

\* C18: an updatePlayerInput that returns true comes from a participant of a
\* playing match and sets that participant's paddle (left for players[0], right
\* for players[1]) to paddleY; the ball, the scores, the other paddle, the status
\* and every other field of the match stay as they were.
C18_InputSetsOwnPaddle ==
    \A c \in InputCalls :
        LET res == updatePlayerInput(engineMatches, activeMatches,
                                     c.id, c.playerId, c.paddleY)
        IN  res.ok =>
              /\ Playing(c.id) /\ IsParticipant(c.id, c.playerId)
              /\ LET before == engineMatches[c.id]
                     after  == res.em[c.id]
                     first  == activeMatches[c.id].players[1].userId = c.playerId
                 IN  /\ after.ball = before.ball
                     /\ after.score = before.score
                     /\ after.status = before.status
                     /\ first   => /\ after.paddles.left = c.paddleY
                                   /\ after.paddles.right = before.paddles.right
                     /\ ~ first => /\ after.paddles.right = c.paddleY
                                   /\ after.paddles.left = before.paddles.left
                     /\ after = [before EXCEPT !.paddles = after.paddles]
              /\ DOMAIN res.em = DOMAIN engineMatches

\* players[1] has just moved the right paddle to 550, the left one is where it was
C18_Witness ==
    /\ out = {Emit(EngineMatch, "updatePlayerInput", 1)}
    /\ engineMatches[EngineMatch].status = "playing"
    /\ engineMatches[EngineMatch].paddles = [left |-> Px(250), right |-> Px(550)]

\* C19: updateGameState of an unknown match, or of a match that is starting,
\* paused or completed, returns with every match (ball, paddles, scores, status,
\* lastTick, winner) as it was, whatever the time elapsed.
C19_TickOnlyWhenPlaying ==
    \A id \in MatchIds, frames \in Frames, rnd \in Serves :
        ~ Playing(id)
        => updateGameState(engineMatches, activeMatches, id, frames, rnd)
             = engineMatches

\* A paused match, three frames late, has just been ticked with the ball still
\* at the place it was created at
C19_Witness ==
    /\ out = {Emit(EngineMatch, "updateGameState", 3)}
    /\ engineMatches[EngineMatch].status = "paused"
    /\ engineMatches[EngineMatch].lastTick = 0
    /\ engineMatches[EngineMatch].ball.x = Px(25)

\* The ball moved freely for the elapsed time, e * 60 = frames
Drift(ball, frames) ==
    [x |-> ball.x + ball.vx * frames, y |-> ball.y + ball.vy * frames,
     vx |-> ball.vx, vy |-> ball.vy]

\* No wall, no paddle and no edge is met at the place the ball drifts to
FreeMotion(m, frames) ==
    LET b == Drift(m.ball, frames)
    IN  /\ Px(10) < b.y /\ b.y < Px(590)
        /\ 0 < b.x /\ b.x < Px(800)
        /\ ~ hitsLeft(b, m.paddles) /\ ~ hitsRight(b, m.paddles)

\* C20: a tick of a playing match that meets no wall, paddle or edge moves the
\* ball by vx*e*60 and vy*e*60, keeps both velocities, both paddles, both scores
\* and the status, and gives the same match whatever the random draws would be:
\* the state after the tick is a function of the state before and of e.
C20_FreeMotionTick ==
    \A c \in TickCalls :
        (Playing(c.id) /\ FreeMotion(engineMatches[c.id], c.frames))
        => LET before == engineMatches[c.id]
               em     == updateGameState(engineMatches, activeMatches,
                                         c.id, c.frames, c.rnd)
           IN  /\ em[c.id].ball = Drift(before.ball, c.frames)
               /\ em[c.id].paddles = before.paddles
               /\ em[c.id].score = before.score
               /\ em[c.id].status = before.status
               /\ \A rnd \in Serves :
                     updateGameState(engineMatches, activeMatches,
                                     c.id, c.frames, rnd) = em

\* One frame (1/60 s) after (400,300) with velocity (5,3) the ball is at (405,303)
C20_Witness ==
    /\ out = {Emit(EngineMatch, "updateGameState", 1)}
    /\ engineMatches[EngineMatch].status = "playing"
    /\ engineMatches[EngineMatch].lastTick = 1
    /\ engineMatches[EngineMatch].ball =
          [x |-> Px(405), y |-> Px(303), vx |-> Px(5), vy |-> Px(3)]

Clamp(lo, v, hi) == Max(lo, Min(hi, v))

\* The ball as the tick leaves it at a wall: inverted vy, y clamped
Bounced(ball, frames) ==
    LET b == Drift(ball, frames)
    IN  [b EXCEPT !.vy = 0 - @, !.y = Clamp(Px(10), @, Px(590))]

AtWall(ball, frames) ==
    LET b == Drift(ball, frames) IN b.y <= Px(10) \/ b.y >= Px(590)

AtGoal(ball, frames) ==
    LET b == Drift(ball, frames) IN b.x <= 0 \/ b.x >= Px(800)

\* C21 as stated: after every tick of a playing match the ball has 10 <= y <= 590
\* and 0 < x < 800, and a tick whose moved ball has y <= 10 or y >= 590 leaves the
\* ball with vy inverted.
C21_WallAlwaysInverts ==
    \A c \in TickCalls :
        Playing(c.id)
        => LET before == engineMatches[c.id].ball
               after  == updateGameState(engineMatches, activeMatches,
                                         c.id, c.frames, c.rnd)[c.id].ball
           IN  /\ Px(10) <= after.y /\ after.y <= Px(590)
               /\ 0 < after.x /\ after.x < Px(800)
               /\ AtWall(before, c.frames) => after.vy = 0 - before.vy

\* C21: after every tick of a playing match the ball has 10 <= y <= 590 and
\* 0 < x < 800; a tick whose moved ball has y <= 10 or y >= 590 inverts vy and
\* clamps y into [10,590], and the ball keeps that velocity and place unless a
\* paddle is hit or a goal is scored in the same tick.
C21_BallStaysInCourt ==
    \A c \in TickCalls :
        Playing(c.id)
        => LET m      == engineMatches[c.id]
               wall   == Bounced(m.ball, c.frames)
               after  == updateGameState(engineMatches, activeMatches,
                                         c.id, c.frames, c.rnd)[c.id].ball
           IN  /\ Px(10) <= after.y /\ after.y <= Px(590)
               /\ 0 < after.x /\ after.x < Px(800)
               /\ (/\ AtWall(m.ball, c.frames)
                   /\ ~ AtGoal(m.ball, c.frames)
                   /\ ~ hitsLeft(wall, m.paddles) /\ ~ hitsRight(wall, m.paddles))
                  => after = wall

\* The ball has just bounced off the top wall
C21_Witness ==
    /\ out = {Emit(EngineMatch, "updateGameState", 1)}
    /\ engineMatches[EngineMatch].status = "playing"
    /\ engineMatches[EngineMatch].lastTick = 1
    /\ engineMatches[EngineMatch].ball =
          [x |-> Px(405), y |-> Px(10), vx |-> Px(5), vy |-> Px(3)]

\* The ball after the movement and the wall step, as the paddles meet it
Moved(ball, frames) ==
    IF AtWall(ball, frames) THEN Bounced(ball, frames) ELSE Drift(ball, frames)

\* The ball is within a paddle's reach: x in [lo,hi] and |ball.y - paddle.y| <= 50
Reaches(b, lo, hi, paddleY) ==
    /\ Px(lo) <= b.x /\ b.x <= Px(hi)
    /\ paddleY # NaN /\ Abs(b.y - paddleY) <= Px(50)

\* C22: in a tick of a playing match, a moved ball with x in [10,20] within 50 of
\* the left paddle's y leaves with vx = |vx| and vy = -((paddle.y - ball.y)/50)*5;
\* with x in [780,790] within 50 of the right paddle's y it leaves with vx = -|vx|
\* and the same vy rule; so a hit at the centre gives vy = 0 and |vy| <= 5 after a
\* hit. Otherwise, unless a goal recentres the ball, the velocity is as the
\* movement left it.
C22_PaddleCollision ==
    \A c \in TickCalls :
        Playing(c.id)
        => LET m     == engineMatches[c.id]
               b     == Moved(m.ball, c.frames)
               after == updateGameState(engineMatches, activeMatches,
                                        c.id, c.frames, c.rnd)[c.id].ball
               left  == Reaches(b, 10, 20, m.paddles.left)
               right == Reaches(b, 780, 790, m.paddles.right)
           IN  /\ left  => /\ after.vx = Abs(b.vx)
                           /\ after.vy * 50 = 0 - ((m.paddles.left - b.y) * 5)
                           /\ b.y = m.paddles.left => after.vy = 0
               /\ right => /\ after.vx = 0 - Abs(b.vx)
                           /\ after.vy * 50 = 0 - ((m.paddles.right - b.y) * 5)
                           /\ b.y = m.paddles.right => after.vy = 0
               /\ (left \/ right) => /\ Abs(after.vy) <= Px(5)
                                     /\ after.x = b.x /\ after.y = b.y
               /\ (~ left /\ ~ right /\ ~ AtGoal(m.ball, c.frames))
                  => after = b

\* The ball has just hit the left paddle, centred at 250, 50 above its centre
C22_Witness ==
    /\ out = {Emit(EngineMatch, "updateGameState", 1)}
    /\ engineMatches[EngineMatch].status = "playing"
    /\ engineMatches[EngineMatch].lastTick = 1
    /\ engineMatches[EngineMatch].paddles.left = Px(250)
    /\ engineMatches[EngineMatch].ball =
          [x |-> Px(20), y |-> Px(200), vx |-> Px(5), vy |-> 0 - Px(5)]

\* C23: in a tick of a playing match a moved ball with x <= 0 adds exactly 1 to
\* the right paddle's score and nothing to the left's, one with x >= 800 adds
\* exactly 1 to the left paddle's score and nothing to the right's, and in both
\* cases the ball is put at (400,300) with vx 5 or -5 and vy within [-3,3]; any
\* other tick leaves both scores, so no tick adds more than 1 in total and no
\* score decreases.
C23_Scoring ==
    \A c \in TickCalls :
        Playing(c.id)
        => LET m     == engineMatches[c.id]
               b     == Moved(m.ball, c.frames)
               after == updateGameState(engineMatches, activeMatches,
                                        c.id, c.frames, c.rnd)[c.id]
           IN  /\ b.x <= 0 => after.score = <<m.score[1], m.score[2] + 1>>
               /\ b.x >= Px(800) => after.score = <<m.score[1] + 1, m.score[2]>>
               /\ (b.x <= 0 \/ b.x >= Px(800))
                  => /\ after.ball.x = Px(400) /\ after.ball.y = Px(300)
                     /\ after.ball.vx \in {Px(5), 0 - Px(5)}
                     /\ 0 - Px(3) <= after.ball.vy /\ after.ball.vy <= Px(3)
               /\ (0 < b.x /\ b.x < Px(800)) => after.score = m.score
               /\ after.score[1] >= m.score[1] /\ after.score[2] >= m.score[2]
               /\ after.score[1] + after.score[2] <= m.score[1] + m.score[2] + 1

\* The ball has just left by the left edge: the right paddle has its first point
\* and the ball is back at the centre
C23_Witness ==
    /\ Ticked(EngineMatch)
    /\ engineMatches[EngineMatch].status = "playing"
    /\ engineMatches[EngineMatch].score = <<0, 1>>
    /\ engineMatches[EngineMatch].ball.x = Px(400)
    /\ engineMatches[EngineMatch].ball.y = Px(300)

-----------------------------------------------------------------------------
\* A match at play: setupSocketEvents takes activeConnections and activeMatches
\* from its caller, and gameEngine.createMatch takes the status from its
\* argument, so a caller can register a match that is 'playing' in both maps for
\* two connected players. The engine then ticks, the players send input and
\* disconnect, the grace callbacks run, and the exported endMatch and
\* broadcastGameStates are called. currentMatch is as handleMatchFound leaves it.

PlayBalls == {[x |-> Px(795), y |-> Px(300), vx |-> Px(5), vy |-> Px(3)],
              [x |-> Px(5), y |-> Px(300), vx |-> 0 - Px(5), vy |-> Px(3)]}

InitPlay ==
    /\ sockState = [s \in Sockets |-> IF s <= 2 THEN "open" ELSE "unused"]
    /\ sockUser = [s \in Sockets |-> IF s = 1 THEN "u1" ELSE IF s = 2 THEN "u2" ELSE NoUser]
    /\ pendingJoin = [s \in Sockets |-> 0]
    /\ activeConnections =
          [s \in 1 .. 2 |-> [userId |-> matchData.players[s].userId,
                             currentMatch |-> NoMatch]]
    /\ queue = <<>>
    /\ searchTimeouts = EmptyMap
    /\ activeMatches = MapSet(EmptyMap, EngineMatch, [matchData EXCEPT !.status = "playing"])
    /\ \E ball \in PlayBalls, score \in Scores :
          engineMatches = MapSet(EmptyMap, EngineMatch,
                                 [engineCreateMatch("playing") EXCEPT
                                     !.ball = ball, !.score = score])
    /\ countdowns = EmptyMap
    /\ graceTimers = {}
    /\ uuids = {EngineMatch}
    /\ out = {}
    /\ last = NoEvent
    /\ readySent = EmptyMap
    /\ sinceClose = <<>>

\* gameEngine.endMatch(matchId), called from outside the tick
CallEndMatch(id) ==
    /\ id \in DOMAIN engineMatches => id \in DOMAIN activeMatches
    /\ engineMatches' = endMatch(engineMatches, activeMatches, id)
    /\ out' = {Emit(id, "endMatch", 0)}
    /\ UNCHANGED engineRest

\* broadcastGameStates(io, activeMatches)
BroadcastGameStates ==
    /\ out' = UNION {{Emit(s, "game:state", id) : s \in Room(activeMatches[id])} :
                       id \in {m \in DOMAIN activeMatches :
                                 /\ activeMatches[m].status = "playing"
                                 /\ m \in DOMAIN engineMatches}}
    /\ UNCHANGED <<engineMatches, engineRest>>

TickAny(id) == \E frames \in Frames, rnd \in Serves : Tick(id, frames, rnd)

NextPlay ==
    \/ \E id \in MatchIds : TickAny(id)
    \/ \E id \in MatchIds : Input(id, "u1", Px(50))
    \/ \E id \in MatchIds : CallEndMatch(id)
    \/ BroadcastGameStates
    \/ \E id \in MatchIds, s \in Sockets : CallHandlePlayerDisconnect(id, s)
    \/ \E t \in graceTimers : GraceExpire(t)
    \/ Advance /\ UNCHANGED sinceClose

\* The interval of a match runs while it is set, a callback that is due runs,
\* and time passes
SpecPlay ==
    /\ InitPlay
    /\ [][NextPlay]_vars
    /\ \A id \in MatchIds : WF_vars(TickAny(id))
    /\ WF_vars(\E t \in graceTimers : GraceExpire(t))
    /\ WF_vars(Advance /\ UNCHANGED sinceClose)

WonByScore ==
    /\ EngineMatch \in DOMAIN engineMatches
    /\ engineMatches[EngineMatch].status = "completed"
    /\ engineMatches[EngineMatch].score[1] >= 11 \/ engineMatches[EngineMatch].score[2] >= 11

MatchEnded(o) == \E e \in o : e.msg = "match:ended:player_disconnect"

\* endMatch has nothing left to do for the match: it is completed or gone
Ended(id) ==
    id \in DOMAIN engineMatches => engineMatches[id].status = "completed"

\* C25: gameEngine.endMatch of a match that is completed or no longer kept leaves
\* every match of the engine as it was (status, winner, scores, the matches
\* kept); a match-end event is emitted only in the step that takes the match out
\* of activeMatches, and a match that has left activeMatches never returns, so
\* each match has at most one match-end event however many grace timers fire.
C25_EndMatchIdempotent ==
    /\ [](\A id \in MatchIds :
            Ended(id) => endMatch(engineMatches, activeMatches, id) = engineMatches)
    /\ [][/\ MatchEnded(out') => /\ EngineMatch \in DOMAIN activeMatches
                                 /\ EngineMatch \notin DOMAIN activeMatches'
          /\ EngineMatch \notin DOMAIN activeMatches
               => /\ EngineMatch \notin DOMAIN activeMatches'
                  /\ engineMatches' = engineMatches]_vars

\* endMatch has just been called for a match that a tick had completed at 11-10
C25_Witness ==
    /\ out = {Emit(EngineMatch, "endMatch", 0)}
    /\ EngineMatch \in DOMAIN engineMatches
    /\ engineMatches[EngineMatch].status = "completed"
    /\ engineMatches[EngineMatch].score = <<11, 10>>
    /\ engineMatches[EngineMatch].winner = "u1"

\* The match is gone and a second grace timer of it is due
C25_SecondTimerDue ==
    /\ EngineMatch \notin DOMAIN activeMatches
    /\ \E t \in graceTimers : t.match = EngineMatch /\ t.rem = 0

C27_NoEntryOfClosedConnection ==
    \A i \in 1 .. Len(queue) : sockState[queue[i].socketId] # "closed"

Unbound(s) == sockState[s] # "unused" /\ sockUser[s] = NoUser

\* C28: a connection without an identity has no queue entry and is a participant
\* of no match, and when its matchmaking:join ends, the queue, the timers and the
\* matches are as before and the connection is sent an error.
C28_UnboundNeverQueued ==
    /\ [](/\ \A i \in 1 .. Len(queue) :
               queue[i].userId # NoUser /\ ~ Unbound(queue[i].socketId)
          /\ \A id \in DOMAIN activeMatches : \A i \in 1 .. 2 :
               /\ activeMatches[id].players[i].userId # NoUser
               /\ ~ Unbound(activeMatches[id].players[i].socketId))
    /\ [][\A s \in Sockets :
             (Unbound(s) /\ pendingJoin'[s] < pendingJoin[s])
             => /\ UNCHANGED <<queue, searchTimeouts, activeMatches, engineMatches>>
                /\ \E e \in out' : e.to = s /\ e.msg \in ErrorMessages]_vars

\* A connection without an identity has just been refused while another
\* identity waits in the queue
C28_Witness ==
    \E s \in Sockets :
        /\ Unbound(s)
        /\ out = {Emit(s, "error:User not found", 0)}
        /\ Len(queue) = 1

\* C29: when a tick of a playing match has run, a game:state snapshot of that
\* tick has been emitted to the match's room.
C29_SnapshotEveryTick ==
    \A id \in DOMAIN engineMatches :
        (/\ Ticked(id)
         /\ engineMatches[id].status = "playing"
         /\ id \in DOMAIN activeMatches /\ activeMatches[id].status = "playing")
        => \A s \in Room(activeMatches[id]) :
              \E e \in out : e.to = s /\ e.msg = "game:state"

\* No game:state is emitted for a match that is not playing in activeMatches
C29_NoSnapshotUnlessPlaying ==
    \A e \in out :
        e.msg = "game:state"
        => e.arg \in DOMAIN activeMatches /\ activeMatches[e.arg].status = "playing"

C31_CurrentMatchBound ==
    /\ \A id \in DOMAIN activeMatches : \A s \in PlayerSockets(activeMatches[id]) :
          s \in DOMAIN activeConnections => activeConnections[s].currentMatch = id
    /\ \A s \in DOMAIN activeConnections :
          MatchesOfUser(sockUser[s]) = {} => activeConnections[s].currentMatch = NoMatch

-----------------------------------------------------------------------------
\* A match whose participants are bound to it: setupSocketEvents takes
\* activeConnections and activeMatches from its caller, so it can be handed two
\* connection records whose currentMatch is the match handleMatchFound has just
\* registered (starting, nobody ready, countdown pending). match:ready then
\* reaches the match; handlePlayerDisconnect and the timers act as before.
\* sinceClose follows the time since match:ready last resumed the match.

InitBound ==
    /\ sockState = [s \in Sockets |-> IF s <= 2 THEN "open" ELSE "unused"]
    /\ sockUser = [s \in Sockets |-> IF s = 1 THEN "u1" ELSE IF s = 2 THEN "u2" ELSE NoUser]
    /\ pendingJoin = [s \in Sockets |-> 0]
    /\ activeConnections =
          [s \in 1 .. 2 |-> [userId |-> matchData.players[s].userId,
                             currentMatch |-> EngineMatch]]
    /\ queue = <<>>
    /\ searchTimeouts = EmptyMap
    /\ activeMatches = MapSet(EmptyMap, EngineMatch, matchData)
    /\ engineMatches = MapSet(EmptyMap, EngineMatch, engineCreateMatch("starting"))
    /\ countdowns = MapSet(EmptyMap, EngineMatch, countdownDelay)
    /\ graceTimers = {}
    /\ uuids = {EngineMatch}
    /\ out = {}
    /\ last = NoEvent
    /\ readySent = MapSet(EmptyMap, EngineMatch, {})
    /\ sinceClose = <<>>

StatusOf(am, id) == IF id \in DOMAIN am THEN am[id].status ELSE "removed"

\* The match:ready of s returns a paused match to playing: the pause that
\* follows is younger than this moment
resumed(s) ==
    IF /\ StatusOf(activeMatches, EngineMatch) = "paused"
       /\ StatusOf(activeMatches', EngineMatch) = "playing"
    THEN <<s, 0>> ELSE sinceClose

NextBound ==
    \/ \E s \in Sockets : MatchReady(s) /\ readySent' = countReady(s)
                                        /\ sinceClose' = resumed(s)
    \/ \E id \in MatchIds : Countdown(id)
    \/ \E id \in MatchIds, s \in Sockets : CallHandlePlayerDisconnect(id, s)
    \/ \E t \in graceTimers : GraceExpire(t)
    \/ Advance /\ sinceClose' = elapsed

SpecBound == InitBound /\ [][NextBound]_vars

-----------------------------------------------------------------------------
\* Two matches at play side by side, each created by a pairing of its own
\* (createMatch builds a new gameState literal per call, lines 136-143, and the
\* engine keeps one record per match id): the second pairs the same two users,
\* u1 on a connection opened later.

OtherMatch == uuidv4(2)

otherData ==
    [players |-> <<participant([userId |-> "u2", socketId |-> 2]),
                   participant([userId |-> "u1", socketId |-> 3])>>,
     status  |-> "playing"]

InitTwo ==
    /\ sockState = [s \in Sockets |-> "open"]
    /\ sockUser = [s \in Sockets |-> IF s = 2 THEN "u2" ELSE "u1"]
    /\ pendingJoin = [s \in Sockets |-> 0]
    /\ activeConnections =
          [s \in Sockets |-> [userId |-> IF s = 2 THEN "u2" ELSE "u1",
                              currentMatch |-> NoMatch]]
    /\ queue = <<>>
    /\ searchTimeouts = EmptyMap
    /\ activeMatches =
          MapSet(MapSet(EmptyMap, EngineMatch, [matchData EXCEPT !.status = "playing"]),
                 OtherMatch, otherData)
    /\ engineMatches =
          MapSet(MapSet(EmptyMap, EngineMatch,
                        [engineCreateMatch("playing") EXCEPT
                            !.ball = [x |-> Px(795), y |-> Px(300), vx |-> Px(5), vy |-> Px(3)],
                            !.score = <<10, 10>>]),
                 OtherMatch, engineCreateMatch("playing"))
    /\ countdowns = EmptyMap
    /\ graceTimers = {}
    /\ uuids = {EngineMatch, OtherMatch}
    /\ out = {}
    /\ last = NoEvent
    /\ readySent = EmptyMap
    /\ sinceClose = <<>>

\* Every operation on either match: a tick of one frame, an input of u1, an end,
\* the disconnect of the connection both matches share, the grace timers
NextTwo ==
    \/ \E id \in MatchIds, rnd \in Serves : Tick(id, 1, rnd)
    \/ \E id \in MatchIds : Input(id, "u1", Px(50))
    \/ \E id \in MatchIds : CallEndMatch(id)
    \/ \E id \in MatchIds : CallHandlePlayerDisconnect(id, 2)
    \/ \E t \in graceTimers : GraceExpire(t)
    \/ Advance /\ UNCHANGED sinceClose

SpecTwo == InitTwo /\ [][NextTwo]_vars

\* All that the engine and the registry keep of one match
MatchView(em, am, id) ==
    <<IF id \in DOMAIN em THEN <<em[id]>> ELSE <<>>,
      IF id \in DOMAIN am THEN <<am[id]>> ELSE <<>>>>

\* C36: a tick, input, score, pause or end of one match changes nothing of any
\* other match: no step changes the ball, paddles, scores, status or
\* participants of two matches.
C36_MatchesAreIsolated ==
    [][\A a, b \in MatchIds :
          (/\ a # b
           /\ MatchView(engineMatches', activeMatches', a)
                 # MatchView(engineMatches, activeMatches, a))
          => MatchView(engineMatches', activeMatches', b)
                 = MatchView(engineMatches, activeMatches, b)]_vars

\* One match has been paused and ended by its grace timer, the other has been
\* ticked and is still at play
C36_Witness ==
    /\ EngineMatch \notin DOMAIN activeMatches
    /\ EngineMatch \notin DOMAIN engineMatches
    /\ OtherMatch \in DOMAIN activeMatches \cap DOMAIN engineMatches
    /\ activeMatches[OtherMatch] = otherData
    /\ engineMatches[OtherMatch].status = "playing"
    /\ engineMatches[OtherMatch].lastTick > 0
    /\ engineMatches[OtherMatch].score = <<0, 0>>

\* C37: both scores of every match are whole numbers from 0 to 11 and at most
\* one of them is 11; a match the engine has marked completed stays completed
\* and keeps its ball, paddles and scores for as long as the engine keeps it.
C37_ScoresBoundedAndFinal ==
    /\ [](\A id \in DOMAIN engineMatches :
            /\ engineMatches[id].score \in (0 .. 11) \X (0 .. 11)
            /\ engineMatches[id].score # <<11, 11>>)
    /\ [][\A id \in DOMAIN engineMatches \cap DOMAIN engineMatches' :
            engineMatches[id].status = "completed"
            => /\ engineMatches'[id].status = "completed"
               /\ engineMatches'[id].ball = engineMatches[id].ball
               /\ engineMatches'[id].paddles = engineMatches[id].paddles
               /\ engineMatches'[id].score = engineMatches[id].score]_vars

\* A match completed by the eleventh point at 11-10 has since refused an input
C37_Witness ==
    /\ out = {Emit(EngineMatch, "updatePlayerInput", 0)}
    /\ EngineMatch \in DOMAIN engineMatches
    /\ engineMatches[EngineMatch].status = "completed"
    /\ engineMatches[EngineMatch].score = <<11, 10>>

\* C38: the band of every queued entry whose rating r lies on the scale
\* satisfies floor <= min <= r <= max <= ceiling, and for as long as the entry
\* stays in the queue its min never rises and its max never falls.
C38_RangeBoundedAndWidening ==
    /\ [](\A i \in 1 .. Len(queue) :
            queue[i].rating \in ratingFloor .. ratingCeiling
            => /\ ratingFloor <= queue[i].range.min
               /\ queue[i].range.min <= queue[i].rating
               /\ queue[i].rating <= queue[i].range.max
               /\ queue[i].range.max <= ratingCeiling)
    /\ [][\A i \in 1 .. Len(queue), j \in 1 .. Len(queue') :
            (/\ queue'[j].userId = queue[i].userId
             /\ queue'[j].rating = queue[i].rating
             /\ queue'[j].age >= queue[i].age
             /\ ~ last'.replaced)
            => /\ queue'[j].range.min <= queue[i].range.min
               /\ queue'[j].range.max >= queue[i].range.max]_vars

\* An entry rated 2900 has been widened once: downwards by the expansion rate,
\* upwards only as far as the ceiling
C38_Witness ==
    \E i \in 1 .. Len(queue) :
        /\ queue[i].rating = 2900
        /\ queue[i].fires >= 1
        /\ queue[i].range = [min |-> 2900 - baseRange - expansionRate,
                             max |-> ratingCeiling]
====
